---------------------------- MODULE Spec2Model ----------------------------
(***************************************************************************)
(* slowtail: a paced relay of lines from a growing file or from standard   *)
(* input to standard output.                                               *)
(*                                                                         *)
(* Three goroutines are modelled: main (start-up and the relay loop), the  *)
(* line source adapter (stdinToChan or fileToChan, with the rewind pass    *)
(* tailFile) and the speed controller (interactiveMode, changeSpeed,       *)
(* speedMessage).  They share linesChannel (capacity 1), readyChannel      *)
(* (capacity 1), globalDelay and globalDelayMutex.                         *)
(*                                                                         *)
(* Spec        is the program of src/slowtail.go.                          *)
(* SpecPart001 is the program of src/unnamed/part_001, which differs in    *)
(*             main, stdinToChan, fileToChan and the Ctrl-C handling.      *)
(* SpecRewind  runs the rewind pass (tailFile) alone on larger files.      *)
(* SpecSpeed   runs the speed controller on every kind of initial delay.   *)
(*                                                                         *)
(* A line is identified by its 1-based position in its source: the file    *)
(* is <<1, ..., fileLen>> and standard input is <<1, ..., stdinLen>>.      *)
(* The code never inspects the text of a line.                             *)
(***************************************************************************)
EXTENDS Integers, Sequences, FiniteSets, TLC

\* ------------------------------------------------------------ bounds
MaxFileLen == 1
MaxRewind == 2
MaxAppend == 2
MaxStdin == 2
MaxKeys == 1
MaxKeysS == 3
MaxFileLenR == 10
MaxRewindR == 15

\* ------------------------------------------------- program constants
MaxInt32 == 2147483647
Step == 250
ChanCap == 1
DefaultDelay == 250

\* The initial delays tried: parseArgs accepts 0..MaxInt32.
DelayInputs == {0, 100, 250, MaxInt32 - 250, MaxInt32}

\* The terminal widths tried: the widest tier of speedMessage, and one below all tiers.
Widths == {19, 70}

VARIABLES
    isStdin,            \* isStdin(): standard input is not a character device
    interactive,        \* --interactive
    humanFriendly,      \* --porcelain
    rewindLines,        \* options.rewindLines
    termWidth,          \* termbox.Size()
    delayMilliseconds,  \* options.delayMilliseconds
    hasFilePath,        \* len(options.filePath) > 0
    globalDelay,        \* var globalDelay
    globalDelayMutex,   \* holder of globalDelayMutex: "free", "ctl"
    linesChannel,       \* buffered lines of linesChannel
    chanClosed,         \* close(*linesChannel) has run
    readyChannel,       \* buffered values of readyChannel
    mainPc,             \* main: "start", "dispatch", "relay", "print", "done"
    mainLine,           \* main: the loop variable line
    adPc,               \* adapter goroutine: "none" until it is started
    adLine,             \* adapter: the line about to be sent
    rewindLinesCount,   \* adapter: parameter rewindLinesCount
    linesToTail,        \* tailFile: linesToTail
    scanPos,            \* tailFile, second pass: lineNum
    tailPos,            \* tail.TailFile: lines of the file already delivered on t.Lines
    adSleep,            \* the argument of the sleepMilliseconds call in progress
    ctlPc,              \* speed controller goroutine: "none" until it is started
    ctlDown,            \* changeSpeed: parameter down
    ctlBefore,          \* globalDelay when the key event in progress was polled
    ctlMsg,             \* the result of speedMessage
    keys,               \* events delivered by termbox.PollEvent so far
    keyLimit,           \* events the terminal delivers in this run
    termHeld,           \* termbox.Init has run and termbox.Close has not
    stdoutClosed,       \* os.Stdout.Close() has run (part_001)
    stdinClosed,        \* os.Stdin.Close() has run (part_001)
    fileLen,            \* lines in the file now
    fileRemoved,        \* the file has been removed
    appends,            \* lines appended to the file since the start
    stdinLen,           \* records the input stream delivers before end-of-input
    stdinPos,           \* records read from standard input so far
    out,                \* standard output: a sequence of <<kind, value>>
    exitStatus,         \* "running", "exit0", "exit1", "exit2"
    watchLen,           \* history: fileLen when the watch was opened, -1 before
    totalAtCount,       \* history: fileLen at the first pass of tailFile, -1 before
    rewindErr,          \* history: the second pass of tailFile ended on an error
    waited,             \* history: the records after which stdinToChan called sleepMilliseconds
    readySent,          \* history: interactiveMode has sent on readyChannel
    speedLog            \* history: <<down, before, after>> per finished changeSpeed

cfgVars == <<isStdin, interactive, humanFriendly, rewindLines, termWidth, stdinLen,
             keyLimit, delayMilliseconds, hasFilePath>>
mainVars == <<mainPc, mainLine>>
adVars == <<adPc, adLine, rewindLinesCount, linesToTail, scanPos, tailPos, adSleep,
            stdinPos, watchLen, totalAtCount, waited, rewindErr>>
ctlVars == <<ctlPc, ctlDown, ctlBefore, ctlMsg, keys, termHeld, readySent, speedLog>>
closeVars == <<stdoutClosed, stdinClosed>>
fileVars == <<fileLen, appends, fileRemoved>>

vars == <<cfgVars, mainVars, adVars, ctlVars, closeVars, fileVars, globalDelay,
          globalDelayMutex, linesChannel, chanClosed, readyChannel, out, exitStatus>>

\* ------------------------------------------------------------ helpers
Max(a, b) == IF a >= b THEN a ELSE b

\* <<a, a+1, ..., b>>, empty when b < a
SeqRange(a, b) == [i \in 1..(b - a + 1) |-> a + i - 1]

\* math.Abs(float64(x)) converted back to int
Abs(x) == IF x < 0 THEN -x ELSE x

Running == exitStatus = "running"

\* fmt.Println on standard output; a write to a closed descriptor fails and
\* the error is dropped.
Println(o, e) == IF stdoutClosed THEN o ELSE Append(o, e)

\* The values of the entries of o of the given kind, in order.
OfKind(o, kind) ==
    LET sel == SelectSeq(o, LAMBDA e : e[1] = kind)
    IN  [i \in 1..Len(sel) |-> sel[i][2]]

\* ------------------------------------------------------- pure functions
\* tailFile: linesToTail := int(math.Abs(float64(linesCount - totalLinesCount)))
LinesToTailClamped(linesCount, totalLinesCount) == Max(0, totalLinesCount - linesCount)
LinesToTail(linesCount, totalLinesCount) == Abs(linesCount - totalLinesCount)

\* tailFile, second pass: if lineNum >= linesToTail { fmt.Println(line) }
TailPrintsStrict(lineNum, threshold) == lineNum > threshold
TailPrints(lineNum, threshold) == lineNum >= threshold

\* changeSpeed, down: if globalDelay < math.MaxInt32-250
SlowerAllowedInclusive(d) == d <= MaxInt32 - Step
SlowerAllowed(d) == d < MaxInt32 - Step

\* changeSpeed, up: if globalDelay-250 >= 0
FasterAllowedAlways(d) == TRUE
FasterAllowed(d) == d - Step >= 0

\* stdinToChan: if rewindLinesCount == 0, the wait is performed
WaitDueAlways(n) == TRUE

WaitDue(n) == n = 0

\* fileToChan: if rewindLinesCount > 0, the rewind pass runs
RewindRequestedAlways(n) == TRUE

RewindRequested(n) == n > 0

\* make(chan string, 1): a send proceeds only while the buffer holds fewer
\* than ChanCap lines
ChanHasRoomAlways(ch) == TRUE
ChanHasRoom(ch) == Len(ch) < ChanCap

\* sleepMilliseconds(globalDelay): the argument is the shared delay as it is when
\* the call is made, not the configured delay
SleepArgumentConfigured(current, configured) == configured
SleepArgument(current, configured) == current

\* tail.SeekInfo{Offset: 0, Whence: 2}: the watch starts at the end of the file
TailLocationStart(len) == 0
TailLocation(len) == len

\* for line := range linesChannel: the loop ends when the channel is closed
\* and its buffer is empty
RangeEndsOnClose(ch, closed) == closed
RangeEnds(ch, closed) == closed /\ ch = <<>>

\* speedMessage: the text as <<tier, ...>>; <<>> is the empty string
speedMessage(down, w, d) ==
    LET direction == IF down THEN "slower" ELSE "faster"
        tier == IF w >= 70 THEN "w70"
                ELSE IF w >= 55 THEN "w55"
                ELSE IF w >= 40 THEN "w40"
                ELSE IF w >= 20 THEN "w20"
                ELSE "none"
    IN  IF tier = "none" THEN <<>>
        ELSE IF d > 0
             THEN IF tier = "w20" THEN <<tier, d>> ELSE <<tier, direction, d>>
             ELSE <<tier, "realtime">>

\* ---------------------------------------------------------------- Init
InitCommon ==
    /\ delayMilliseconds = globalDelay
    /\ humanFriendly \in (IF interactive THEN BOOLEAN ELSE {FALSE})
    /\ termWidth \in (IF humanFriendly THEN Widths ELSE {70})
    /\ globalDelayMutex = "free"
    /\ linesChannel = <<>>
    /\ chanClosed = FALSE
    /\ readyChannel = <<>>
    /\ mainPc = "start"
    /\ mainLine = 0
    /\ adPc = "none"
    /\ adLine = 0
    /\ rewindLinesCount = rewindLines
    /\ linesToTail = 0
    /\ scanPos = 0
    /\ tailPos = 0
    /\ adSleep = 0
    /\ ctlPc = "none"
    /\ ctlDown = FALSE
    /\ ctlBefore = 0
    /\ ctlMsg = <<>>
    /\ keys = 0
    /\ termHeld = FALSE
    /\ stdoutClosed = FALSE
    /\ stdinClosed = FALSE
    /\ appends = 0
    /\ fileRemoved = FALSE
    /\ stdinPos = 0
    /\ out = <<>>
    /\ exitStatus = "running"
    /\ watchLen = -1
    /\ totalAtCount = -1
    /\ waited = <<>>
    /\ rewindErr = FALSE
    /\ readySent = FALSE
    /\ speedLog = <<>>

\* The state after parseArgs and globalDelay = options.delayMilliseconds. On a file
\* with the speed controller the rewind is either off or of MaxRewind lines.
Init ==
    /\ isStdin \in BOOLEAN
    /\ hasFilePath \in BOOLEAN
    /\ interactive \in BOOLEAN
    /\ rewindLines \in (IF interactive /\ ~isStdin THEN {0, MaxRewind} ELSE 0..MaxRewind)
    /\ globalDelay = DefaultDelay
    /\ keyLimit = MaxKeys
    /\ fileLen \in (IF isStdin THEN {0} ELSE 0..MaxFileLen)
    /\ stdinLen \in (IF isStdin THEN 0..MaxStdin ELSE {0})
    /\ InitCommon

\* ---------------------------------------------------------------- main
\* A startup that never posts the readiness signal.
main_start_unposted ==
    /\ Running /\ mainPc = "start"
    /\ hasFilePath
    /\ IF interactive THEN ctlPc' = "init" ELSE UNCHANGED ctlPc
    /\ mainPc' = "dispatch"
    /\ UNCHANGED <<cfgVars, mainLine, adVars, ctlDown, ctlBefore, ctlMsg, keys, termHeld,
                   readySent, speedLog, closeVars, fileVars, globalDelay,
                   globalDelayMutex, linesChannel, chanClosed, readyChannel, out,
                   exitStatus>>

\* slowtail.go 62-67: with a file path, start the speed controller or pre-post
\* readiness
main_start ==
    /\ Running /\ mainPc = "start"
    /\ hasFilePath
    /\ IF interactive
       THEN ctlPc' = "init" /\ UNCHANGED readyChannel
       ELSE readyChannel' = Append(readyChannel, TRUE) /\ UNCHANGED ctlPc
    /\ mainPc' = "dispatch"
    /\ UNCHANGED <<cfgVars, mainLine, adVars, ctlDown, ctlBefore, ctlMsg, keys, termHeld,
                   readySent, speedLog, closeVars, fileVars, globalDelay,
                   globalDelayMutex, linesChannel, chanClosed, out, exitStatus>>

\* slowtail.go 62, 78-79: with an empty file path main starts nothing and returns:
\* the process exits 0
main_nofile ==
    /\ Running /\ mainPc = "start"
    /\ ~hasFilePath
    /\ mainPc' = "done"
    /\ exitStatus' = "exit0"
    /\ UNCHANGED <<cfgVars, mainLine, adVars, ctlVars, closeVars, fileVars, globalDelay,
                   globalDelayMutex, linesChannel, chanClosed, readyChannel, out>>

\* slowtail.go 69-73: if isStdin() && <-readyChannel { stdinToChan } else { fileToChan }
\* The receive is evaluated only when isStdin() is true.
main_dispatch ==
    /\ Running /\ mainPc = "dispatch"
    /\ IF isStdin
       THEN /\ Len(readyChannel) > 0
            /\ readyChannel' = Tail(readyChannel)
            /\ adPc' = IF Head(readyChannel) THEN "rl_read" ELSE "ftc"
       ELSE /\ adPc' = "ftc"
            /\ UNCHANGED readyChannel
    /\ mainPc' = "relay"
    /\ UNCHANGED <<cfgVars, mainLine, adLine, rewindLinesCount, linesToTail, scanPos,
                   tailPos, adSleep, stdinPos, watchLen, totalAtCount, ctlVars,
                   closeVars, fileVars, globalDelay, globalDelayMutex, linesChannel,
                   chanClosed, out, exitStatus>>
    /\ UNCHANGED <<waited, rewindErr>>

\* part_001 69-75, 316-324: if <-readyChannel { if isStdin() { stdinToChan } else
\* { fileToChan } }; isStdin() reads the state of standard input, which is still open
main_dispatch_p1 ==
    /\ Running /\ mainPc = "dispatch"
    /\ Len(readyChannel) > 0
    /\ Head(readyChannel) => ~stdinClosed
    /\ readyChannel' = Tail(readyChannel)
    /\ adPc' = IF ~Head(readyChannel) THEN "none"
               ELSE IF isStdin THEN "rl_read" ELSE "stat"
    /\ mainPc' = "relay"
    /\ UNCHANGED <<cfgVars, mainLine, adLine, rewindLinesCount, linesToTail, scanPos,
                   tailPos, adSleep, stdinPos, watchLen, totalAtCount, ctlVars,
                   closeVars, fileVars, globalDelay, globalDelayMutex, linesChannel,
                   chanClosed, out, exitStatus>>
    /\ UNCHANGED <<waited, rewindErr>>

\* part_001 69-70, 313, 317-319: main receives the readiness signal and calls
\* isStdin() after quitInteracitve has closed standard input: os.Stdin.Stat() returns
\* (nil, err), the error is dropped and stat.Mode() on the nil value panics: the
\* runtime ends the process with status 2 and no adapter is started
main_isStdin_panic_p1 ==
    /\ Running /\ mainPc = "dispatch"
    /\ Len(readyChannel) > 0
    /\ Head(readyChannel) /\ stdinClosed
    /\ readyChannel' = Tail(readyChannel)
    /\ exitStatus' = "exit2"
    /\ UNCHANGED <<cfgVars, mainVars, adVars, ctlVars, closeVars, fileVars, globalDelay,
                   globalDelayMutex, linesChannel, chanClosed, out>>

\* slowtail.go 75: the receive of for line := range linesChannel
main_recv ==
    /\ Running /\ mainPc = "relay"
    /\ Len(linesChannel) > 0
    /\ mainLine' = Head(linesChannel)
    /\ linesChannel' = Tail(linesChannel)
    /\ mainPc' = "print"
    /\ UNCHANGED <<cfgVars, adVars, ctlVars, closeVars, fileVars, globalDelay,
                   globalDelayMutex, chanClosed, readyChannel, out, exitStatus>>

\* slowtail.go 76: fmt.Println(line)
main_print ==
    /\ Running /\ mainPc = "print"
    /\ out' = Println(out, <<"line", mainLine>>)
    /\ mainPc' = "relay"
    /\ UNCHANGED <<cfgVars, mainLine, adVars, ctlVars, closeVars, fileVars, globalDelay,
                   globalDelayMutex, linesChannel, chanClosed, readyChannel, exitStatus>>

\* slowtail.go 75-79: the range loop ends and main returns: the process exits 0
main_return ==
    /\ Running /\ mainPc = "relay"
    /\ RangeEnds(linesChannel, chanClosed)
    /\ mainPc' = "done"
    /\ exitStatus' = "exit0"
    /\ UNCHANGED <<cfgVars, mainLine, adVars, ctlVars, closeVars, fileVars, globalDelay,
                   globalDelayMutex, linesChannel, chanClosed, readyChannel, out>>

\* ------------------------------------------------------------- adapter
\* checkErr(err) with err != nil: log.Fatal, that is os.Exit(1); deferred calls do not run
Fatal ==
    /\ exitStatus' = "exit1"
    /\ UNCHANGED <<cfgVars, mainVars, adVars, ctlVars, closeVars, fileVars, globalDelay,
                   globalDelayMutex, linesChannel, chanClosed, readyChannel, out>>

\* slowtail.go 137-151, 183-196 with 298-302: checkErr(err) in the file adapter, whose
\* source could not be opened or watched: log.Fatal ends the process with status 1
fileToChan_fatal ==
    /\ exitStatus' = "exit1"
    /\ adPc' = "failed"
    /\ UNCHANGED <<cfgVars, mainVars, adLine, rewindLinesCount, linesToTail, scanPos,
                   tailPos, adSleep, stdinPos, watchLen, totalAtCount, ctlVars,
                   closeVars, fileVars, globalDelay, globalDelayMutex, linesChannel,
                   chanClosed, readyChannel, out>>
    /\ UNCHANGED <<waited, rewindErr>>

\* slowtail.go 117: readline.ReadLine delivers the next record to the callback.
\* part_001 127-129: after os.Stdin.Close() scanner.Scan() still delivers the records
\* it has buffered; whether a record was buffered is not determined
\* (stdinToChan_eof_p1 is the other outcome).
stdinToChan_read ==
    /\ Running /\ adPc = "rl_read"
    /\ stdinPos < stdinLen
    /\ stdinPos' = stdinPos + 1
    /\ adLine' = stdinPos + 1
    /\ adPc' = "send"
    /\ UNCHANGED <<cfgVars, mainVars, rewindLinesCount, linesToTail, scanPos, tailPos,
                   adSleep, watchLen, totalAtCount, ctlVars, closeVars, fileVars,
                   globalDelay, globalDelayMutex, linesChannel, chanClosed,
                   readyChannel, out, exitStatus>>
    /\ UNCHANGED <<waited, rewindErr>>

\* slowtail.go 115, 127-128: end-of-input: ReadLine returns, the deferred close runs
stdinToChan_eof ==
    /\ Running /\ adPc = "rl_read"
    /\ stdinPos = stdinLen
    /\ chanClosed' = TRUE
    /\ adPc' = "done"
    /\ UNCHANGED <<cfgVars, mainVars, adLine, rewindLinesCount, linesToTail, scanPos,
                   tailPos, adSleep, stdinPos, watchLen, totalAtCount, ctlVars,
                   closeVars, fileVars, globalDelay, globalDelayMutex, linesChannel,
                   readyChannel, out, exitStatus>>
    /\ UNCHANGED <<waited, rewindErr>>

\* part_001 129, 139-140: scanner.Scan() returns false (end-of-input, or the
\* descriptor was closed): the function returns; the channel is not closed
stdinToChan_eof_p1 ==
    /\ Running /\ adPc = "rl_read"
    /\ stdinPos = stdinLen \/ stdinClosed
    /\ adPc' = "done"
    /\ UNCHANGED <<cfgVars, mainVars, adLine, rewindLinesCount, linesToTail, scanPos,
                   tailPos, adSleep, stdinPos, watchLen, totalAtCount, ctlVars,
                   closeVars, fileVars, globalDelay, globalDelayMutex, linesChannel,
                   chanClosed, readyChannel, out, exitStatus>>
    /\ UNCHANGED <<waited, rewindErr>>

\* slowtail.go 118 and 146: *linesChannel <- line, blocking while the buffer is full
chan_send ==
    /\ Running /\ adPc = "send"
    /\ ChanHasRoom(linesChannel)
    /\ linesChannel' = Append(linesChannel, adLine)
    /\ adPc' = "pace"
    /\ UNCHANGED <<cfgVars, mainVars, adLine, rewindLinesCount, linesToTail, scanPos,
                   tailPos, adSleep, stdinPos, watchLen, totalAtCount, ctlVars,
                   closeVars, fileVars, globalDelay, globalDelayMutex, chanClosed,
                   readyChannel, out, exitStatus>>
    /\ UNCHANGED <<waited, rewindErr>>

\* slowtail.go 120-126: sleep when no skip is left, else count one skip down.
\* globalDelay is read here, without the mutex.
stdinToChan_pace ==
    /\ Running /\ adPc = "pace" /\ isStdin
    /\ IF WaitDue(rewindLinesCount)
       THEN /\ adSleep' = SleepArgument(globalDelay, delayMilliseconds)
            /\ waited' = Append(waited, adLine)
            /\ adPc' = "sleep"
            /\ UNCHANGED rewindLinesCount
       ELSE /\ rewindLinesCount' = rewindLinesCount - 1
            /\ adPc' = "rl_read"
            /\ UNCHANGED <<adSleep, waited>>
    /\ UNCHANGED <<cfgVars, mainVars, adLine, linesToTail, scanPos, tailPos, stdinPos,
                   watchLen, totalAtCount, rewindErr, ctlVars, closeVars, fileVars,
                   globalDelay, globalDelayMutex, linesChannel, chanClosed,
                   readyChannel, out, exitStatus>>

\* slowtail.go 147: sleepMilliseconds(globalDelay), the read of globalDelay
fileToChan_pace ==
    /\ Running /\ adPc = "pace" /\ ~isStdin
    /\ adSleep' = SleepArgument(globalDelay, delayMilliseconds)
    /\ adPc' = "sleep"
    /\ UNCHANGED <<cfgVars, mainVars, adLine, rewindLinesCount, linesToTail, scanPos,
                   tailPos, stdinPos, watchLen, totalAtCount, ctlVars, closeVars,
                   fileVars, globalDelay, globalDelayMutex, linesChannel, chanClosed,
                   readyChannel, out, exitStatus>>
    /\ UNCHANGED <<waited, rewindErr>>

\* slowtail.go 304-306: time.Sleep returns
sleepMilliseconds ==
    /\ Running /\ adPc = "sleep"
    /\ adPc' = IF isStdin THEN "rl_read" ELSE "tl_recv"
    /\ UNCHANGED <<cfgVars, mainVars, adLine, rewindLinesCount, linesToTail, scanPos,
                   tailPos, adSleep, stdinPos, watchLen, totalAtCount, ctlVars,
                   closeVars, fileVars, globalDelay, globalDelayMutex, linesChannel,
                   chanClosed, readyChannel, out, exitStatus>>
    /\ UNCHANGED <<waited, rewindErr>>

\* part_001 145-147: os.Stat(source); a missing file is fatal
fileToChan_stat_p1 ==
    /\ Running /\ adPc = "stat"
    /\ \/ /\ adPc' = "ftc"
          /\ UNCHANGED <<cfgVars, mainVars, adLine, rewindLinesCount, linesToTail,
                         scanPos, tailPos, adSleep, stdinPos, watchLen, totalAtCount,
                         ctlVars, closeVars, fileVars, globalDelay, globalDelayMutex,
                         linesChannel, chanClosed, readyChannel, out, exitStatus>>
       \/ fileToChan_fatal
    /\ UNCHANGED <<waited, rewindErr>>

\* slowtail.go 133-135: if rewindLinesCount > 0 { tailFile(source, rewindLinesCount) }
fileToChan_start ==
    /\ Running /\ adPc = "ftc"
    /\ adPc' = IF RewindRequested(rewindLinesCount) THEN "tf_count" ELSE "tf_open"
    /\ UNCHANGED <<cfgVars, mainVars, adLine, rewindLinesCount, linesToTail, scanPos,
                   tailPos, adSleep, stdinPos, watchLen, totalAtCount, ctlVars,
                   closeVars, fileVars, globalDelay, globalDelayMutex, linesChannel,
                   chanClosed, readyChannel, out, exitStatus>>
    /\ UNCHANGED <<waited, rewindErr>>

\* slowtail.go 183-186, 194-196: the first pass counts the lines; an open error is fatal
tailFile_count ==
    /\ Running /\ adPc = "tf_count"
    /\ \/ /\ linesToTail' = LinesToTail(rewindLinesCount, fileLen)
          /\ totalAtCount' = fileLen
          /\ scanPos' = 0
          /\ adPc' = "tf_scan"
          /\ UNCHANGED <<cfgVars, mainVars, adLine, rewindLinesCount, tailPos, adSleep,
                         stdinPos, watchLen, ctlVars, closeVars, fileVars, globalDelay,
                         globalDelayMutex, linesChannel, chanClosed, readyChannel, out,
                         exitStatus>>
       \/ fileToChan_fatal
    /\ UNCHANGED <<waited, rewindErr>>

\* slowtail.go 187-193 with 165-173: the second pass handles line lineNum = scanPos
tailFile_scan ==
    /\ Running /\ adPc = "tf_scan"
    /\ scanPos < fileLen
    /\ out' = IF TailPrints(scanPos, linesToTail)
              THEN Println(out, <<"rewind", scanPos + 1>>)
              ELSE out
    /\ scanPos' = scanPos + 1
    /\ UNCHANGED <<cfgVars, mainVars, adPc, adLine, rewindLinesCount, linesToTail,
                   tailPos, adSleep, stdinPos, watchLen, totalAtCount, ctlVars,
                   closeVars, fileVars, globalDelay, globalDelayMutex, linesChannel,
                   chanClosed, readyChannel, exitStatus>>
    /\ UNCHANGED <<waited, rewindErr>>

\* slowtail.go 165, 179: scanner.Scan() returns false at the end of the file
tailFile_done ==
    /\ Running /\ adPc = "tf_scan"
    /\ scanPos >= fileLen
    /\ adPc' = "tf_open"
    /\ UNCHANGED <<cfgVars, mainVars, adLine, rewindLinesCount, linesToTail, scanPos,
                   tailPos, adSleep, stdinPos, watchLen, totalAtCount, ctlVars,
                   closeVars, fileVars, globalDelay, globalDelayMutex, linesChannel,
                   chanClosed, readyChannel, out, exitStatus>>
    /\ UNCHANGED <<waited, rewindErr>>

\* slowtail.go 187-193 with 155-160, 175-177: the second eachFileLine fails, at
\* os.Open or in the scanner; tailFile drops the error and returns, and fileToChan
\* goes on to the watch
tailFile_error ==
    /\ Running /\ adPc = "tf_scan"
    /\ rewindErr' = TRUE
    /\ adPc' = "tf_open"
    /\ UNCHANGED <<cfgVars, mainVars, adLine, rewindLinesCount, linesToTail, scanPos,
                   tailPos, adSleep, stdinPos, watchLen, totalAtCount, waited, ctlVars,
                   closeVars, fileVars, globalDelay, globalDelayMutex, linesChannel,
                   chanClosed, readyChannel, out, exitStatus>>

\* slowtail.go 137-144, 149-151: tail.TailFile opens the watch at the end of the
\* file, or fails, which is fatal
fileToChan_watch ==
    /\ Running /\ adPc = "tf_open"
    /\ \/ /\ tailPos' = TailLocation(fileLen)
          /\ watchLen' = fileLen
          /\ adPc' = "tl_recv"
          /\ UNCHANGED <<cfgVars, mainVars, adLine, rewindLinesCount, linesToTail,
                         scanPos, adSleep, stdinPos, totalAtCount, ctlVars, closeVars,
                         fileVars, globalDelay, globalDelayMutex, linesChannel,
                         chanClosed, readyChannel, out, exitStatus>>
       \/ fileToChan_fatal
    /\ UNCHANGED <<waited, rewindErr>>

\* slowtail.go 145: for line := range t.Lines, the next appended line
fileToChan_recv ==
    /\ Running /\ adPc = "tl_recv"
    /\ tailPos < fileLen
    /\ adLine' = tailPos + 1
    /\ tailPos' = tailPos + 1
    /\ adPc' = "send"
    /\ UNCHANGED <<cfgVars, mainVars, rewindLinesCount, linesToTail, scanPos, adSleep,
                   stdinPos, watchLen, totalAtCount, ctlVars, closeVars, fileVars,
                   globalDelay, globalDelayMutex, linesChannel, chanClosed,
                   readyChannel, out, exitStatus>>
    /\ UNCHANGED <<waited, rewindErr>>

\* slowtail.go 131, 145-148: the watched file is gone and every line was delivered:
\* the tail stops and closes t.Lines, the range loop ends, the deferred close runs
fileToChan_return ==
    /\ Running /\ adPc = "tl_recv"
    /\ fileRemoved /\ tailPos >= fileLen
    /\ chanClosed' = TRUE
    /\ adPc' = "done"
    /\ UNCHANGED <<cfgVars, mainVars, adLine, rewindLinesCount, linesToTail, scanPos,
                   tailPos, adSleep, stdinPos, watchLen, totalAtCount, ctlVars,
                   closeVars, fileVars, globalDelay, globalDelayMutex, linesChannel,
                   readyChannel, out, exitStatus>>
    /\ UNCHANGED <<waited, rewindErr>>

\* The environment removes the watched file.
RemoveFile ==
    /\ Running /\ ~isStdin
    /\ watchLen >= 0 /\ ~fileRemoved
    /\ fileRemoved' = TRUE
    /\ UNCHANGED <<cfgVars, mainVars, adVars, ctlVars, closeVars, fileLen, appends,
                   globalDelay, globalDelayMutex, linesChannel, chanClosed,
                   readyChannel, out, exitStatus>>

\* The environment appends one line to the file.
AppendLine ==
    /\ Running /\ ~isStdin /\ ~fileRemoved
    /\ appends < MaxAppend
    /\ fileLen' = fileLen + 1
    /\ appends' = appends + 1
    /\ UNCHANGED <<fileRemoved, cfgVars, mainVars, adVars, ctlVars, closeVars, globalDelay,
                   globalDelayMutex, linesChannel, chanClosed, readyChannel, out,
                   exitStatus>>

\* ---------------------------------------------------- speed controller
\* slowtail.go 200-206: termbox.Init(), fatal on error
interactiveMode_init ==
    /\ Running /\ ctlPc = "init"
    /\ \/ /\ termHeld' = TRUE
          /\ ctlPc' = "signal"
          /\ UNCHANGED <<cfgVars, mainVars, adVars, ctlDown, ctlBefore, ctlMsg, keys,
                         readySent, speedLog, closeVars, fileVars, globalDelay,
                         globalDelayMutex, linesChannel, chanClosed, readyChannel, out,
                         exitStatus>>
       \/ Fatal

\* slowtail.go 208: *readyChannel <- true
interactiveMode_ready ==
    /\ Running /\ ctlPc = "signal"
    /\ Len(readyChannel) < 1
    /\ readyChannel' = Append(readyChannel, TRUE)
    /\ readySent' = TRUE
    /\ ctlPc' = "poll"
    /\ UNCHANGED <<cfgVars, mainVars, adVars, ctlDown, ctlBefore, ctlMsg, keys, termHeld,
                   speedLog, closeVars, fileVars, globalDelay, globalDelayMutex,
                   linesChannel, chanClosed, out, exitStatus>>

\* slowtail.go 213-215: KeyArrowDown: changeSpeed(true, humanFriendly)
KeyArrowDown ==
    /\ Running /\ ctlPc = "poll" /\ keys < keyLimit
    /\ keys' = keys + 1
    /\ ctlDown' = TRUE
    /\ ctlBefore' = globalDelay
    /\ ctlPc' = "cs_test"
    /\ UNCHANGED <<cfgVars, mainVars, adVars, ctlMsg, termHeld, readySent, speedLog,
                   closeVars, fileVars, globalDelay, globalDelayMutex, linesChannel,
                   chanClosed, readyChannel, out, exitStatus>>

\* slowtail.go 217-219: KeyArrowUp: changeSpeed(false, humanFriendly)
KeyArrowUp ==
    /\ Running /\ ctlPc = "poll" /\ keys < keyLimit
    /\ keys' = keys + 1
    /\ ctlDown' = FALSE
    /\ ctlBefore' = globalDelay
    /\ ctlPc' = "cs_lock"
    /\ UNCHANGED <<cfgVars, mainVars, adVars, ctlMsg, termHeld, readySent, speedLog,
                   closeVars, fileVars, globalDelay, globalDelayMutex, linesChannel,
                   chanClosed, readyChannel, out, exitStatus>>

\* slowtail.go 212-225: any other key: no branch is taken
KeyOther ==
    /\ Running /\ ctlPc = "poll" /\ keys < keyLimit
    /\ keys' = keys + 1
    /\ UNCHANGED <<cfgVars, mainVars, adVars, ctlPc, ctlDown, ctlBefore, ctlMsg, termHeld,
                   readySent, speedLog, closeVars, fileVars, globalDelay,
                   globalDelayMutex, linesChannel, chanClosed, readyChannel, out,
                   exitStatus>>

\* slowtail.go 221-225: KeyCtrlC: termbox.Flush(); termbox.Close(); os.Exit(0)
KeyCtrlC ==
    /\ Running /\ ctlPc = "poll" /\ keys < keyLimit
    /\ keys' = keys + 1
    /\ termHeld' = FALSE
    /\ ctlPc' = "exited"
    /\ exitStatus' = "exit0"
    /\ UNCHANGED <<cfgVars, mainVars, adVars, ctlDown, ctlBefore, ctlMsg, readySent,
                   speedLog, closeVars, fileVars, globalDelay, globalDelayMutex,
                   linesChannel, chanClosed, readyChannel, out>>

\* part_001 237-238, 304-306: KeyCtrlC: quitInteracitve: termbox.Flush(), termbox.Close()
KeyCtrlC_p1 ==
    /\ Running /\ ctlPc = "poll" /\ keys < keyLimit
    /\ keys' = keys + 1
    /\ termHeld' = FALSE
    /\ ctlPc' = "qi_print"
    /\ UNCHANGED <<cfgVars, mainVars, adVars, ctlDown, ctlBefore, ctlMsg, readySent,
                   speedLog, closeVars, fileVars, globalDelay, globalDelayMutex,
                   linesChannel, chanClosed, readyChannel, out, exitStatus>>

\* part_001 308-310: if humanFriendly { fmt.Println("Press Ctrl+C to exit") }
quitInteracitve_print ==
    /\ Running /\ ctlPc = "qi_print"
    /\ out' = IF humanFriendly THEN Println(out, <<"farewell", 0>>) ELSE out
    /\ ctlPc' = "qi_stdout"
    /\ UNCHANGED <<cfgVars, mainVars, adVars, ctlDown, ctlBefore, ctlMsg, keys, termHeld,
                   readySent, speedLog, closeVars, fileVars, globalDelay,
                   globalDelayMutex, linesChannel, chanClosed, readyChannel, exitStatus>>

\* part_001 312: os.Stdout.Close()
quitInteracitve_stdout ==
    /\ Running /\ ctlPc = "qi_stdout"
    /\ stdoutClosed' = TRUE
    /\ ctlPc' = "qi_stdin"
    /\ UNCHANGED <<cfgVars, mainVars, adVars, ctlDown, ctlBefore, ctlMsg, keys, termHeld,
                   readySent, speedLog, stdinClosed, fileVars, globalDelay,
                   globalDelayMutex, linesChannel, chanClosed, readyChannel, out,
                   exitStatus>>

\* part_001 313, 239-240: os.Stdin.Close(); quitInteracitve returns, break leaves the
\* switch only and the loop polls again
quitInteracitve_stdin ==
    /\ Running /\ ctlPc = "qi_stdin"
    /\ stdinClosed' = TRUE
    /\ ctlPc' = "poll"
    /\ UNCHANGED <<cfgVars, mainVars, adVars, ctlDown, ctlBefore, ctlMsg, keys, termHeld,
                   readySent, speedLog, stdoutClosed, fileVars, globalDelay,
                   globalDelayMutex, linesChannel, chanClosed, readyChannel, out,
                   exitStatus>>

\* part_001 77-79: the stream adapter has returned without closing the channel and
\* main is blocked in the range loop; with no speed controller no goroutine is
\* left to run and the Go runtime ends the process ("all goroutines are asleep"),
\* status 2
runtime_deadlock_p1 ==
    /\ Running /\ ~interactive
    /\ adPc = "done" /\ mainPc = "relay"
    /\ linesChannel = <<>> /\ ~chanClosed
    /\ exitStatus' = "exit2"
    /\ UNCHANGED <<cfgVars, mainVars, adVars, ctlVars, closeVars, fileVars, globalDelay,
                   globalDelayMutex, linesChannel, chanClosed, readyChannel, out>>

\* slowtail.go 226-227: EventError: checkErr(ev.Err)
EventError ==
    /\ Running /\ ctlPc = "poll" /\ keys < keyLimit
    /\ Fatal

\* Where changeSpeed continues after the delay is settled (slowtail.go 284).
AfterChange == IF humanFriendly THEN "sm_lock" ELSE "poll"

\* slowtail.go 270-271: if globalDelay < math.MaxInt32-250, read without the mutex
changeSpeed_test ==
    /\ Running /\ ctlPc = "cs_test"
    /\ IF SlowerAllowed(globalDelay)
       THEN ctlPc' = "cs_lock" /\ UNCHANGED speedLog
       ELSE /\ ctlPc' = AfterChange
            /\ speedLog' = Append(speedLog, <<TRUE, ctlBefore, globalDelay>>)
    /\ UNCHANGED <<cfgVars, mainVars, adVars, ctlDown, ctlBefore, ctlMsg, keys, termHeld,
                   readySent, closeVars, fileVars, globalDelay, globalDelayMutex,
                   linesChannel, chanClosed, readyChannel, out, exitStatus>>

\* slowtail.go 272 and 277: globalDelayMutex.Lock()
changeSpeed_lock ==
    /\ Running /\ ctlPc = "cs_lock"
    /\ globalDelayMutex = "free"
    /\ globalDelayMutex' = "ctl"
    /\ ctlPc' = "cs_update"
    /\ UNCHANGED <<cfgVars, mainVars, adVars, ctlDown, ctlBefore, ctlMsg, keys, termHeld,
                   readySent, speedLog, closeVars, fileVars, globalDelay, linesChannel,
                   chanClosed, readyChannel, out, exitStatus>>

\* A speed change that also discards the line buffered in the channel.
changeSpeed_update_flush ==
    /\ Running /\ ctlPc = "cs_update"
    /\ globalDelay' = IF ctlDown THEN globalDelay + Step
                      ELSE IF FasterAllowed(globalDelay) THEN globalDelay - Step
                      ELSE globalDelay
    /\ globalDelayMutex' = "free"
    /\ speedLog' = Append(speedLog, <<ctlDown, ctlBefore, globalDelay'>>)
    /\ ctlPc' = AfterChange
    /\ linesChannel' = <<>>
    /\ UNCHANGED <<cfgVars, mainVars, adVars, ctlDown, ctlBefore, ctlMsg, keys, termHeld,
                   readySent, closeVars, fileVars, chanClosed, readyChannel, out,
                   exitStatus>>

\* slowtail.go 273-274 and 278-281: the update and globalDelayMutex.Unlock()
changeSpeed_update ==
    /\ Running /\ ctlPc = "cs_update"
    /\ globalDelay' = IF ctlDown THEN globalDelay + Step
                      ELSE IF FasterAllowed(globalDelay) THEN globalDelay - Step
                      ELSE globalDelay
    /\ globalDelayMutex' = "free"
    /\ speedLog' = Append(speedLog, <<ctlDown, ctlBefore, globalDelay'>>)
    /\ ctlPc' = AfterChange
    /\ UNCHANGED <<cfgVars, mainVars, adVars, ctlDown, ctlBefore, ctlMsg, keys, termHeld,
                   readySent, closeVars, fileVars, linesChannel, chanClosed,
                   readyChannel, out, exitStatus>>

\* slowtail.go 238: speedMessage: globalDelayMutex.Lock()
speedMessage_lock ==
    /\ Running /\ ctlPc = "sm_lock"
    /\ globalDelayMutex = "free"
    /\ globalDelayMutex' = "ctl"
    /\ ctlPc' = "sm_read"
    /\ UNCHANGED <<cfgVars, mainVars, adVars, ctlDown, ctlBefore, ctlMsg, keys, termHeld,
                   readySent, speedLog, closeVars, fileVars, globalDelay, linesChannel,
                   chanClosed, readyChannel, out, exitStatus>>

\* slowtail.go 239-266: the message is built from globalDelay; the deferred Unlock runs
speedMessage_read ==
    /\ Running /\ ctlPc = "sm_read"
    /\ ctlMsg' = speedMessage(ctlDown, termWidth, globalDelay)
    /\ globalDelayMutex' = "free"
    /\ ctlPc' = "sm_print"
    /\ UNCHANGED <<cfgVars, mainVars, adVars, ctlDown, ctlBefore, keys, termHeld,
                   readySent, speedLog, closeVars, fileVars, globalDelay, linesChannel,
                   chanClosed, readyChannel, out, exitStatus>>

\* slowtail.go 285: fmt.Println(speedMessage(down))
changeSpeed_print ==
    /\ Running /\ ctlPc = "sm_print"
    /\ out' = Println(out, <<"banner", ctlMsg>>)
    /\ ctlPc' = "poll"
    /\ UNCHANGED <<cfgVars, mainVars, adVars, ctlDown, ctlBefore, ctlMsg, keys, termHeld,
                   readySent, speedLog, closeVars, fileVars, globalDelay,
                   globalDelayMutex, linesChannel, chanClosed, readyChannel, exitStatus>>

\* --------------------------------------------------------------- specs
Relay == main_recv \/ main_print \/ main_return

AdapterCommon ==
    \/ stdinToChan_read \/ chan_send \/ stdinToChan_pace \/ fileToChan_pace
    \/ sleepMilliseconds \/ fileToChan_start \/ tailFile_count \/ tailFile_scan
    \/ tailFile_done \/ tailFile_error \/ fileToChan_watch \/ fileToChan_recv
    \/ fileToChan_return

ControllerCore ==
    \/ interactiveMode_init \/ interactiveMode_ready \/ KeyArrowDown \/ KeyArrowUp
    \/ KeyOther \/ EventError \/ changeSpeed_test \/ changeSpeed_lock
    \/ changeSpeed_update

ControllerCommon ==
    \/ ControllerCore \/ speedMessage_lock \/ speedMessage_read \/ changeSpeed_print

\* src/slowtail.go
Next ==
    \/ main_start \/ main_nofile \/ main_dispatch \/ Relay
    \/ AdapterCommon \/ stdinToChan_eof
    \/ ControllerCommon \/ KeyCtrlC
    \/ AppendLine \/ RemoveFile

Spec == Init /\ [][Next]_vars

\* src/unnamed/part_001
NextPart001 ==
    \/ main_start \/ main_dispatch_p1 \/ main_isStdin_panic_p1 \/ Relay
    \/ AdapterCommon \/ stdinToChan_eof_p1 \/ fileToChan_stat_p1
    \/ ControllerCommon \/ KeyCtrlC_p1 \/ quitInteracitve_print
    \/ quitInteracitve_stdout \/ quitInteracitve_stdin \/ runtime_deadlock_p1
    \/ AppendLine \/ RemoveFile

\* part_001 has no test of the file path: main starts up whatever the path is
InitPart001 == Init /\ hasFilePath

SpecPart001 == InitPart001 /\ [][NextPart001]_vars

\* ------------------------------------------------- src/unnamed/part_000
\* part_000 191, 203-204: with an empty file path main starts nothing and returns
main_nofile_p0 ==
    /\ Running /\ mainPc = "start"
    /\ ~hasFilePath
    /\ mainPc' = "done"
    /\ exitStatus' = "exit0"
    /\ UNCHANGED <<cfgVars, mainLine, adVars, ctlVars, closeVars, fileVars, globalDelay,
                   globalDelayMutex, linesChannel, chanClosed, readyChannel, out>>

\* part_000 189-198: no speed controller and no readiness signal; with a file path
\* main starts the adapter of the source right away
main_start_p0 ==
    /\ Running /\ mainPc = "start"
    /\ hasFilePath
    /\ adPc' = IF isStdin THEN "rl_read" ELSE "ftc"
    /\ mainPc' = "relay"
    /\ UNCHANGED <<cfgVars, mainLine, adLine, rewindLinesCount, linesToTail, scanPos,
                   tailPos, adSleep, stdinPos, watchLen, totalAtCount, ctlVars,
                   closeVars, fileVars, globalDelay, globalDelayMutex, linesChannel,
                   chanClosed, readyChannel, out, exitStatus>>
    /\ UNCHANGED <<waited, rewindErr>>

\* part_000 162-169, 174-175: tail.TailFile opens the watch at the end of the file,
\* or fails: the adapter closes the channel before it reports the error
fileToChan_watch_p0 ==
    /\ Running /\ adPc = "tf_open"
    /\ \/ /\ tailPos' = TailLocation(fileLen)
          /\ watchLen' = fileLen
          /\ adPc' = "tl_recv"
          /\ UNCHANGED chanClosed
       \/ /\ chanClosed' = TRUE
          /\ adPc' = "failed"
          /\ UNCHANGED <<tailPos, watchLen>>
    /\ UNCHANGED <<cfgVars, mainVars, adLine, rewindLinesCount, linesToTail, scanPos,
                   adSleep, stdinPos, totalAtCount, ctlVars, closeVars, fileVars,
                   globalDelay, globalDelayMutex, linesChannel, readyChannel, out,
                   exitStatus>>
    /\ UNCHANGED <<waited, rewindErr>>

\* part_000 176 with 89-93: checkErr(err) after the close: log.Fatal, status 1
fileToChan_checkErr_p0 ==
    /\ Running /\ adPc = "failed"
    /\ exitStatus' = "exit1"
    /\ UNCHANGED <<cfgVars, mainVars, adVars, ctlVars, closeVars, fileVars, globalDelay,
                   globalDelayMutex, linesChannel, chanClosed, readyChannel, out>>

\* part_000 170-173, 178: the watched file is gone and every line was delivered: the
\* range over t.Lines ends and the adapter returns; the channel stays open
fileToChan_return_p0 ==
    /\ Running /\ adPc = "tl_recv"
    /\ fileRemoved /\ tailPos >= fileLen
    /\ adPc' = "done"
    /\ UNCHANGED <<cfgVars, mainVars, adLine, rewindLinesCount, linesToTail, scanPos,
                   tailPos, adSleep, stdinPos, watchLen, totalAtCount, ctlVars,
                   closeVars, fileVars, globalDelay, globalDelayMutex, linesChannel,
                   chanClosed, readyChannel, out, exitStatus>>
    /\ UNCHANGED <<waited, rewindErr>>

\* part_000 200-202: the file adapter has returned without closing the channel and
\* main is blocked in the range loop: no goroutine is left to run and the Go
\* runtime ends the process ("all goroutines are asleep"), status 2
runtime_deadlock_p0 ==
    /\ Running
    /\ adPc = "done" /\ mainPc = "relay"
    /\ linesChannel = <<>> /\ ~chanClosed
    /\ exitStatus' = "exit2"
    /\ UNCHANGED <<cfgVars, mainVars, adVars, ctlVars, closeVars, fileVars, globalDelay,
                   globalDelayMutex, linesChannel, chanClosed, readyChannel, out>>

\* part_000 has no --interactive option
InitPart000 ==
    /\ isStdin \in BOOLEAN
    /\ hasFilePath \in BOOLEAN
    /\ interactive = FALSE
    /\ rewindLines \in 0..MaxRewind
    /\ globalDelay = DefaultDelay
    /\ keyLimit = 0
    /\ fileLen \in (IF isStdin THEN {0} ELSE 0..MaxFileLen)
    /\ stdinLen \in (IF isStdin THEN 0..MaxStdin ELSE {0})
    /\ InitCommon

NextPart000 ==
    \/ main_start_p0 \/ main_nofile_p0 \/ Relay
    \/ stdinToChan_read \/ stdinToChan_eof \/ chan_send \/ stdinToChan_pace
    \/ fileToChan_pace \/ sleepMilliseconds \/ fileToChan_start \/ tailFile_count
    \/ tailFile_scan \/ tailFile_done \/ tailFile_error \/ fileToChan_watch_p0
    \/ fileToChan_recv
    \/ fileToChan_return_p0 \/ fileToChan_checkErr_p0 \/ runtime_deadlock_p0
    \/ AppendLine \/ RemoveFile

SpecPart000 == InitPart000 /\ [][NextPart000]_vars

\* Non-interactive runs of src/slowtail.go: there is no speed controller. The Go
\* scheduler runs main, the only goroutine at startup, so its steps are weakly fair.
InitStartup ==
    /\ isStdin \in BOOLEAN
    /\ hasFilePath \in BOOLEAN
    /\ interactive = FALSE
    /\ rewindLines \in 0..MaxRewind
    /\ globalDelay = DefaultDelay
    /\ keyLimit = 0
    /\ fileLen \in (IF isStdin THEN {0} ELSE 0..MaxFileLen)
    /\ stdinLen \in (IF isStdin THEN 0..MaxStdin ELSE {0})
    /\ InitCommon

NextStartup ==
    \/ main_start \/ main_nofile \/ main_dispatch \/ Relay
    \/ AdapterCommon \/ stdinToChan_eof
    \/ AppendLine \/ RemoveFile

SpecStartup ==
    /\ InitStartup /\ [][NextStartup]_vars
    /\ WF_vars(main_start) /\ WF_vars(main_nofile) /\ WF_vars(main_dispatch)

\* The rewind pass alone: fileToChan has just been started on a file that
\* does not change, without the speed controller.
InitRewind ==
    /\ isStdin = FALSE
    /\ hasFilePath = TRUE
    /\ interactive = FALSE
    /\ rewindLines \in 1..MaxRewindR
    /\ globalDelay = DefaultDelay
    /\ keyLimit = 0
    /\ fileLen \in 0..MaxFileLenR
    /\ stdinLen = 0
    /\ InitCommon

NextRewind ==
    \/ main_start \/ main_dispatch
    \/ fileToChan_start \/ tailFile_count \/ tailFile_scan \/ tailFile_done
    \/ tailFile_error

SpecRewind == InitRewind /\ [][NextRewind]_vars

\* The speed controller against a watched file: every validated kind of initial
\* delay, without banners.
InitSpeed ==
    /\ isStdin = FALSE
    /\ hasFilePath = TRUE
    /\ interactive = TRUE
    /\ rewindLines = 0
    /\ globalDelay \in DelayInputs
    /\ keyLimit = MaxKeysS
    /\ fileLen = 0
    /\ stdinLen = 0
    /\ InitCommon
    /\ humanFriendly = FALSE

NextSpeed ==
    \/ main_start \/ main_dispatch \/ main_recv \/ main_print
    \/ fileToChan_start \/ fileToChan_watch \/ fileToChan_recv \/ chan_send
    \/ fileToChan_pace \/ sleepMilliseconds
    \/ ControllerCore \/ KeyCtrlC
    \/ AppendLine

SpecSpeed == InitSpeed /\ [][NextSpeed]_vars

\* ---------------------------------------------------------- properties
\* The lines written by the relay loop, and by the rewind pass, in order.
RelayedLines == OfKind(out, "line")
RewindOut == OfKind(out, "rewind")

\* The lines taken from the source and not yet written: held by main, buffered
\* in the channel, held by the adapter.
InFlight ==
    (IF mainPc = "print" THEN <<mainLine>> ELSE <<>>)
    \o linesChannel
    \o (IF adPc = "send" THEN <<adLine>> ELSE <<>>)

\* The adapter is at its read of globalDelay.
AdapterAtDelayRead == adPc = "pace" /\ (isStdin => rewindLinesCount = 0)

\* The second pass of tailFile has finished.
RewindPassDone == adPc = "tf_open" /\ totalAtCount >= 0 /\ ~rewindErr

\* C1: on a file source, once the watch is open, the lines written by the relay
\* loop followed by the lines in flight and the lines not yet delivered by the
\* watch are exactly the lines appended since the watch was opened, in order:
\* nothing is duplicated, reordered or lost on the way to the output.
C1_RelayEqualsAppended ==
    (~isStdin /\ watchLen >= 0) =>
        RelayedLines \o InFlight \o SeqRange(tailPos + 1, fileLen)
            = SeqRange(watchLen + 1, fileLen)

C1_Witness ==
    /\ ~isStdin /\ watchLen >= 1 /\ fileLen = watchLen + 2
    /\ RelayedLines = <<watchLen + 1, watchLen + 2>>

\* C2: for rewindLines > 0 on an unchanged file of totalLines lines, the rewind
\* pass writes exactly the lines of 0-based index i >= |rewindLines - totalLines|,
\* in file order, each once, and nothing else (line i has the identity i + 1);
\* a second pass cut short by a read error has written those of them it had read.
C2_RewindSuffix ==
    LET t == fileLen
        r == rewindLines
        d == IF r >= t THEN r - t ELSE t - r
    IN  /\ Len(out) = Len(RewindOut)
        /\ adPc = "tf_scan" => RewindOut = SeqRange(d + 1, scanPos)
        /\ RewindPassDone => RewindOut = SeqRange(d + 1, t)
        /\ rewindErr => RewindOut = SeqRange(d + 1, scanPos)

C2_Witness ==
    /\ RewindPassDone /\ fileLen = 10 /\ rewindLines = 3
    /\ RewindOut = <<8, 9, 10>>

\* C3 as stated: for rewindLines > totalLines >= 1 the rewind pass writes a
\* suffix of length (rewindLines - totalLines) mod totalLines.
C3_Original ==
    (RewindPassDone /\ rewindLines > fileLen /\ fileLen >= 1) =>
        Len(RewindOut) = (rewindLines - fileLen) % fileLen

\* C3 amended: for rewindLines > totalLines >= 1 the rewind pass writes the
\* suffix of length max(0, 2 * totalLines - rewindLines).
C3_ReflectedSuffix ==
    (RewindPassDone /\ rewindLines > fileLen /\ fileLen >= 1) =>
        LET n == Max(0, 2 * fileLen - rewindLines)
        IN  /\ Len(RewindOut) = n
            /\ RewindOut = SeqRange(fileLen - n + 1, fileLen)

C3_Witness ==
    /\ RewindPassDone /\ fileLen = 10 /\ rewindLines = 15
    /\ RewindOut = <<6, 7, 8, 9, 10>>

\* C4: in interactive mode, until the speed controller has sent its readiness
\* signal the adapter is not started and nothing is read or written.
C4_NoLineBeforeReady ==
    (interactive /\ ~readySent) =>
        (adPc = "none" /\ out = <<>> /\ stdinPos = 0 /\ linesChannel = <<>>)

\* C5: a finished "faster" event leaves max(0, d - 250), d being the delay
\* when the event arrived.
C5_FasterFloorsAtZero ==
    \A i \in 1..Len(speedLog) :
        ~speedLog[i][1] => speedLog[i][3] = Max(0, speedLog[i][2] - Step)

\* C6: a finished "slower" event leaves d + 250 when d < INT32_MAX - 250 and d
\* otherwise, d being the delay when the event arrived; the result never
\* exceeds INT32_MAX.
C6_SlowerSaturates ==
    \A i \in 1..Len(speedLog) :
        speedLog[i][1] =>
            /\ speedLog[i][3] = IF speedLog[i][2] < MaxInt32 - 250
                                THEN speedLog[i][2] + 250
                                ELSE speedLog[i][2]
            /\ speedLog[i][3] <= MaxInt32

C6_Witness ==
    speedLog = << <<TRUE, 250, 500>>, <<TRUE, 500, 750>>, <<FALSE, 750, 500>> >>

\* C7: every read, test and write of the shared delay happens with the delay
\* mutex held by the goroutine that makes it.
C7_DelayAccessLocked ==
    /\ ctlPc \in {"cs_test", "cs_update", "sm_read"} => globalDelayMutex = "ctl"
    /\ (AdapterAtDelayRead /\ ctlPc \notin {"none", "exited"}) =>
           globalDelayMutex = "adapter"

\* C8: the shared delay stays within 0..INT32_MAX in every reachable state.
C8_DelayInRange == 0 <= globalDelay /\ globalDelay <= MaxInt32

C8_Witness ==
    /\ Len(speedLog) = 3 /\ adPc = "sleep"
    /\ \E i \in 1..3 : speedLog[i] = <<FALSE, 0, 0>>
    /\ \E i \in 1..3 : speedLog[i][1]

\* C9: on a stream source, once the adapter has returned at end-of-input the
\* line channel is closed, so the relay loop can end.
C9_StreamEndClosesChannel == (isStdin /\ adPc = "done") => chanClosed

\* C10: on a stream source every record read is written once and in arrival
\* order (written, or still in flight), and when the relay loop has run and ended
\* every record of the input has been written.
C10_StreamOutput ==
    isStdin =>
        /\ RelayedLines \o InFlight = SeqRange(1, stdinPos)
        /\ (mainPc = "done" /\ hasFilePath) => RelayedLines = SeqRange(1, stdinLen)

C10_Witness ==
    /\ isStdin /\ mainPc = "done" /\ stdinLen = 2 /\ rewindLines = 1
    /\ RelayedLines = <<1, 2>>

\* C11: in interactive mode the process never exits while the terminal
\* acquired by the speed controller is still held.
C11_TerminalReleasedAtExit == (interactive /\ ~Running) => ~termHeld

\* The interrupt key has been handled: KeyCtrlC leaves the controller exited,
\* quitInteracitve (part_001) closes standard input.
Interrupted == ctlPc = "exited" \/ stdinClosed

\* C12: once the interrupt key has been handled the terminal is released and
\* the process has ended with exit code 0 (so nothing is polled or changed after).
C12_InterruptEndsProcess == Interrupted => (~termHeld /\ exitStatus = "exit0")

\* C13: on a stream source with rewindLines = N > 0 the first N records are
\* never written to the output.
C13_StreamSkipsFirstRecords ==
    (isStdin /\ rewindLines > 0) =>
        \A i \in 1..Len(RelayedLines) : RelayedLines[i] > rewindLines

\* The elements of a sequence.
Elems(s) == {s[i] : i \in 1..Len(s)}

\* C14: the wait of line k never starts before line k has been written to the
\* output, and while it runs line k is the last line fetched from the source:
\* line k+1 is fetched only after the wait has ended.
C14_WaitAfterWrite ==
    adPc = "sleep" =>
        /\ adLine \in Elems(RelayedLines)
        /\ adLine = IF isStdin THEN stdinPos ELSE tailPos

\* The delay left by the last finished speed change, or the configured delay.
LastSettledDelay ==
    IF speedLog = <<>> THEN delayMilliseconds ELSE speedLog[Len(speedLog)][3]

\* C15: a wait is invoked with the shared delay as the last speed change
\* finished before the call left it, and a speed change made while the wait is
\* in progress does not alter that wait.
C15_WaitUsesCurrentDelay ==
    [][ /\ (adPc = "pace" /\ adPc' = "sleep") => adSleep' = LastSettledDelay
        /\ (adPc = "sleep" /\ adPc' = "sleep") => adSleep' = adSleep ]_vars

C15_Witness ==
    /\ adPc = "sleep" /\ adLine = 2 /\ delayMilliseconds = 250
    /\ speedLog = << <<FALSE, 250, 0>> >> /\ adSleep = 0

\* C16: at most one line is buffered between the adapter and the relay loop,
\* and a buffered line k is there only once the relay loop has taken every line
\* handed over before it.
C16_OneLineBuffered ==
    /\ Len(linesChannel) <= 1
    /\ linesChannel # <<>> =>
           LET first == IF isStdin THEN 1 ELSE watchLen + 1
           IN  RelayedLines \o (IF mainPc = "print" THEN <<mainLine>> ELSE <<>>)
                   = SeqRange(first, linesChannel[1] - 1)

C16_Witness ==
    /\ isStdin /\ linesChannel = <<1>> /\ adPc = "send" /\ adLine = 2

\* C17: when the file source cannot be opened or watched the process ends with a
\* non-zero status, never with status 0, and no live line was handed off or relayed:
\* neither after a failure reported by the adapter nor after a failed second pass
\* of the rewind is a watch opened or a line relayed.
C17_SourceFailureIsFatal ==
    /\ adPc = "failed" =>
           /\ watchLen = -1 /\ linesChannel = <<>> /\ RelayedLines = <<>>
           /\ ~Running => exitStatus = "exit1"
    /\ rewindErr =>
           /\ watchLen = -1 /\ linesChannel = <<>> /\ RelayedLines = <<>>
           /\ exitStatus # "exit0"

\* C18: on a file source with rewindLines = 0 no rewind pass is performed: the
\* file is never counted, nothing is written by a rewind pass, no line that was in
\* the file at start is written, and the first line written is the first line
\* appended after the watch was opened at the end of the file.
C18_NoRewindStartsAtEnd ==
    (~isStdin /\ rewindLines = 0) =>
        /\ totalAtCount = -1 /\ RewindOut = <<>>
        /\ \A i \in 1..Len(RelayedLines) : RelayedLines[i] > fileLen - appends
        /\ RelayedLines # <<>> => watchLen >= 0 /\ RelayedLines[1] = watchLen + 1

C18_Witness ==
    /\ ~isStdin /\ rewindLines = 0
    /\ fileLen - appends = 1 /\ watchLen = 1
    /\ RelayedLines = <<2>>

\* C19: in human-friendly interactive mode on a terminal narrower than 20 columns
\* a speed key writes nothing: the output holds no entry written by changeSpeed.
C19_NarrowTerminalSilent ==
    (interactive /\ humanFriendly /\ termWidth < 20) => OfKind(out, "banner") = <<>>

\* The records of the stream that have been through the pacing step.
PacedRecords == IF adPc \in {"send", "pace"} THEN stdinPos - 1 ELSE stdinPos

\* C20: on a stream source with rewindLines = N the wait is skipped for the first
\* N records and performed exactly once after each later record, in order; when
\* the input of M records has ended the waits are those of records min(N, M) + 1
\* to M, none at all if M <= N, and the adapter has ended without an error.
C20_WaitSuppressedForSkipped ==
    isStdin =>
        /\ waited = SeqRange(rewindLines + 1, PacedRecords)
        /\ rewindLinesCount = Max(0, rewindLines - PacedRecords)
        /\ adPc # "failed"
        /\ adPc = "done" =>
               /\ stdinPos = stdinLen
               /\ Len(waited) = stdinLen - (IF rewindLines < stdinLen THEN rewindLines
                                                                     ELSE stdinLen)
               /\ stdinLen <= rewindLines => waited = <<>>

C20_Witness ==
    /\ isStdin /\ adPc = "done"
    /\ rewindLines = 1 /\ stdinLen = 2 /\ waited = <<2>>

\* C21: a step of the running speed controller leaves the line channel, the lines held by
\* the adapter and by the relay loop, the positions in the source and the stream
\* skip counter unchanged, and the shared delay is written only by the update step
\* of changeSpeed, never by the adapter or the relay loop.
C21_ControllerFrame ==
    [][ /\ (ctlPc # "none" /\ ctlVars' # ctlVars) =>
               UNCHANGED <<linesChannel, chanClosed, mainVars, adVars, InFlight>>
        /\ globalDelay' # globalDelay =>
               /\ ctlPc = "cs_update" /\ ctlPc' # "cs_update"
               /\ UNCHANGED <<mainVars, adVars>> ]_vars

C21_Witness ==
    /\ isStdin /\ speedLog # <<>> /\ globalDelay # delayMilliseconds
    /\ linesChannel = <<1>> /\ adPc = "send" /\ adLine = 2
    /\ rewindLines = 2 /\ rewindLinesCount = 1

\* C22: on a file source with rewindLines > 0 the rewind pass is over when the
\* watch is opened; in the output every line of the rewind pass comes before every
\* line relayed from the watch, and no line is written by both: the rewind pass
\* wrote only lines present when the watch opened, the watch relays only later ones.
C22_RewindPrecedesWatch ==
    (~isStdin /\ rewindLines > 0) =>
        /\ watchLen >= 0 => totalAtCount >= 0 /\ adPc \notin {"ftc", "tf_count", "tf_scan"}
        /\ adPc \in {"ftc", "tf_count", "tf_scan", "tf_open"} =>
               RelayedLines = <<>> /\ InFlight = <<>>
        /\ \A i, j \in 1..Len(out) :
               (i < j /\ out[i][1] = "line") => out[j][1] # "rewind"
        /\ Elems(RewindOut) \cap Elems(RelayedLines \o InFlight) = {}
        /\ watchLen >= 0 =>
               /\ \A l \in Elems(RewindOut) : l <= watchLen
               /\ \A l \in Elems(RelayedLines) : l > watchLen

C22_Witness ==
    /\ ~isStdin /\ rewindLines > 0
    /\ RewindOut = <<1>> /\ RelayedLines = <<2>>

\* The positions of the stream adapter and of the file adapter.
StreamAdapterPcs == {"rl_read", "send", "pace", "sleep", "done"}
FileAdapterPcs ==
    {"stat", "ftc", "tf_count", "tf_scan", "tf_open", "tl_recv", "send", "pace",
     "sleep", "done", "failed"}

\* C23 as stated: in non-interactive mode startup never blocks: the readiness
\* signal is already in the readiness channel (capacity 1) when main decides which
\* adapter to start, no adapter runs before that and exactly the adapter of the
\* source runs after it, and main eventually reaches the relay loop.
C23_Original ==
    /\ [](~interactive =>
            /\ Len(readyChannel) <= 1
            /\ mainPc = "dispatch" => readyChannel = <<TRUE>> /\ ENABLED main_dispatch
            /\ mainPc \in {"start", "dispatch"} => adPc = "none" /\ Running
            /\ mainPc \notin {"start", "dispatch"} =>
                   adPc \in (IF isStdin THEN StreamAdapterPcs ELSE FileAdapterPcs))
    /\ (~interactive => <>(mainPc = "relay"))

\* C23 amended: in non-interactive mode startup never blocks. With a non-empty file
\* path the readiness signal is already in the readiness channel when main decides
\* which adapter to start, exactly the adapter of the source is started and main
\* eventually reaches the relay loop; with an empty file path nothing is posted or
\* started and main eventually returns with status 0.
C23_StartupNeverBlocks ==
    /\ [](~interactive =>
            /\ Len(readyChannel) <= 1
            /\ mainPc = "dispatch" => readyChannel = <<TRUE>> /\ ENABLED main_dispatch
            /\ mainPc \in {"start", "dispatch"} => adPc = "none" /\ Running
            /\ (hasFilePath /\ mainPc \notin {"start", "dispatch"}) =>
                   adPc \in (IF isStdin THEN StreamAdapterPcs ELSE FileAdapterPcs)
            /\ ~hasFilePath =>
                   /\ readyChannel = <<>> /\ adPc = "none" /\ out = <<>>
                   /\ mainPc \in {"start", "done"}
                   /\ mainPc = "done" <=> exitStatus = "exit0")
    /\ ((~interactive /\ hasFilePath) => <>(mainPc = "relay"))
    /\ ((~interactive /\ ~hasFilePath) => <>(mainPc = "done"))

C23_Witness ==
    /\ ~interactive /\ isStdin /\ hasFilePath
    /\ mainPc = "relay" /\ adPc = "rl_read" /\ readyChannel = <<>>

=============================================================================
